---- MODULE Spec2Model ----
(***************************************************************************)
(* Deck-slot allocation and custom-labware loading of                      *)
(* course_files/ot2_script_3.py: next_empty_slot, load_custom_labware and  *)
(* the setup / liquid-handling order of run().                             *)
(***************************************************************************)
EXTENDS Integers, Sequences, FiniteSets, TLC

VARIABLES deck, bay, phase, error, last, lastAuto, commands

vars == <<deck, bay, phase, error, last, lastAuto, commands>>

----------------------------------------------------------------------------
(* Bounds *)

\* liquid-handling commands modelled after the setup phase
MaxCommands == 2

----------------------------------------------------------------------------
(* Values *)

\* Python's None, as the occupant of a slot, a label or a returned value
None == "None"

\* deck_position = None (the default of load_custom_labware); slots are ints
NoPosition == 0 - 1

\* what str(protocol.deck[7]) is once the thermocycler is loaded
ThermocyclerName == "Thermocycler Module on 7"

TemperatureModuleName == "Temperature Module GEN2 on 4"

FixedTrash == "Fixed Trash on 12"

\* a labware object sitting in a slot
LabwareItem == "Labware"

\* the keys of protocol.deck, in iteration order
DeckSlots == <<1, 2, 3, 4, 5, 6, 7, 8, 9, 10, 11, 12>>

Slots == {DeckSlots[i] : i \in 1..Len(DeckSlots)}

\* the slots the thermocycler spans
ThermocyclerFootprint == {7, 8, 10, 11}

\* the workaround list without slot 9
ThermocyclerCandidates_without_9 == <<1, 2, 3, 4, 5, 6>>

\* the candidate list of the thermocycler workaround
ThermocyclerCandidates == <<1, 2, 3, 4, 5, 6, 9>>

\* slots the temperature module is loaded in
TemperatureSlots == {4}

\* the slots that can hold a module with a labware bay
ModuleSlots == TemperatureSlots \cup {7}

ModuleName(slot) == IF slot = 7 THEN ThermocyclerName ELSE TemperatureModuleName

\* slots given to protocol.load_labware for the built-in tip racks
TipRackSlots == {1, 2}

\* deck_position arguments of load_custom_labware
DeckPositions == {NoPosition, 0, 3, 8, 12}

Labels == {None, "DNA and Primers"}

----------------------------------------------------------------------------
(* Labware definition files *)

Files == {"labware/3dprinted_24_tuberack_1500ul.json",
          "labware/custom_plate.json",
          "labware/broken.json",
          "labware/missing.json"}

\* the files that exist, with their text as a sequence of JSON tokens
FileSystem ==
    [f \in Files \ {"labware/missing.json"} |->
        CASE f = "labware/3dprinted_24_tuberack_1500ul.json" ->
                 <<"{", "loadName", ":", "3dprinted_24_tuberack_1500ul", "}">>
          [] f = "labware/custom_plate.json" ->
                 <<"{", "loadName", ":", "custom_plate", "}">>
          [] OTHER -> <<"{", "loadName", ":", "broken">>]

\* open(file): the text, or FileNotFoundError
open(file) == IF file \in DOMAIN FileSystem THEN FileSystem[file]
              ELSE <<"FileNotFoundError">>

\* a parser that accepts a document without its closing brace
json_load_lenient(text) ==
    IF Len(text) >= 4 /\ text[1] = "{" /\ text[3] = ":"
    THEN [ok |-> TRUE, value |-> [loadName |-> text[4]], error |-> None]
    ELSE [ok |-> FALSE, value |-> [loadName |-> None], error |-> "JSONDecodeError"]

\* json.load: the parsed object, or JSONDecodeError
json_load(text) ==
    IF /\ Len(text) = 5
       /\ text[1] = "{" /\ text[3] = ":" /\ text[5] = "}"
    THEN [ok |-> TRUE, value |-> [loadName |-> text[4]], error |-> None]
    ELSE [ok |-> FALSE, value |-> [loadName |-> None], error |-> "JSONDecodeError"]

\* lines 32-33: with open(file) as labware_file: json.load(labware_file)
LoadDefinition(file) ==
    IF open(file) = <<"FileNotFoundError">>
    THEN [ok |-> FALSE, value |-> [loadName |-> None], error |-> "FileNotFoundError"]
    ELSE json_load(open(file))

----------------------------------------------------------------------------
(* next_empty_slot *)

\* the slot returned when no candidate is empty: the function raises
NoSlot == 0

\* a scan that falls back to the last candidate instead of raising
FirstEmpty_fallback(d, candidates, i) ==
    LET empty == {j \in i..Len(candidates) : d[candidates[j]] = None}
    IN  IF empty = {} THEN candidates[Len(candidates)]
        ELSE candidates[CHOOSE j \in empty : \A k \in empty : j <= k]

\* a scan from the end of the candidate list
FirstEmpty_reversed(d, candidates, i) ==
    LET empty == {j \in i..Len(candidates) : d[candidates[j]] = None}
    IN  IF empty = {} THEN NoSlot
        ELSE candidates[CHOOSE j \in empty : \A k \in empty : j >= k]

RECURSIVE FirstEmpty(_, _, _)
\* for slot in candidates: if protocol.deck[slot] is None: return slot
FirstEmpty(d, candidates, i) ==
    IF i > Len(candidates) THEN NoSlot
    ELSE IF d[candidates[i]] = None THEN candidates[i]
    ELSE FirstEmpty(d, candidates, i + 1)

\* next_empty_slot always scanning the workaround list
next_empty_slot_always_workaround(d) == FirstEmpty(d, ThermocyclerCandidates, 1)

\* next_empty_slot without the thermocycler workaround
next_empty_slot_no_workaround(d) == FirstEmpty(d, DeckSlots, 1)

\* the slot next_empty_slot returns on deck d, NoSlot when it raises IndexError
next_empty_slot(d) ==
    IF d[7] = ThermocyclerName
    THEN FirstEmpty(d, ThermocyclerCandidates, 1)
    ELSE FirstEmpty(d, DeckSlots, 1)

----------------------------------------------------------------------------
(* The deck's placement primitive *)

ThermocyclerPresent(d) == d[7] = ThermocyclerName

\* a new item at slot would overlap the thermocycler
Collides(d, slot) == ThermocyclerPresent(d) /\ slot \in ThermocyclerFootprint

\* Deck.__setitem__ accepts the item
CanPlace(d, slot) == slot \in Slots /\ d[slot] = None /\ ~Collides(d, slot)

Place(d, slot, item) == [d EXCEPT ![slot] = item]

----------------------------------------------------------------------------
(* State *)

ProtocolContext == [class |-> "ProtocolContext", slot |-> 0]

ModuleContext(slot) == [class |-> "ModuleContext", slot |-> slot]

NoLabware == [type |-> [loadName |-> None], label |-> None, slot |-> 0, module |-> 0]

\* load_labware_from_definition was not called
NoPlacement == [called |-> FALSE, definition |-> [loadName |-> None],
                slot |-> NoPosition, label |-> None]

\* the record of the operation that ran last: its arguments, whether it
\* called next_empty_slot and what that returned, the arguments it handed to
\* load_labware_from_definition and the labware it returned; repeated marks a
\* call of next_empty_slot that directly follows another one
Idle == [op |-> "none", parent |-> ProtocolContext, file |-> None,
         deck_position |-> NoPosition, label |-> None,
         finder |-> FALSE, found |-> NoSlot, repeated |-> FALSE,
         placement |-> NoPlacement, labware |-> NoLabware]

\* every container taken for the deck
IsDeck_always(parent) == TRUE

\* parent.__class__ == protocol_api.protocol_context.ProtocolContext
IsDeck(parent) == parent.class = "ProtocolContext"

\* not deck_position
NotSupplied(deck_position) == deck_position = NoPosition \/ deck_position = 0

\* the slot always taken from the finder
ResolvePosition_always_finder(d, deck_position) == next_empty_slot(d)

\* the argument passed on as it is
ResolvePosition_never_finder(d, deck_position) == deck_position

\* if not deck_position: deck_position = next_empty_slot(parent)
ResolvePosition(d, deck_position) ==
    IF NotSupplied(deck_position) THEN next_empty_slot(d) ELSE deck_position

\* parent.load_labware_from_definition(labware_file, deck_position, label)
DeckCall(definition, deck_position, label) ==
    [called |-> TRUE, definition |-> definition, slot |-> deck_position,
     label |-> label]

\* the module call without the label
ModuleCall_without_label(definition, label) ==
    [called |-> TRUE, definition |-> definition, slot |-> NoPosition,
     label |-> None]

\* parent.load_labware_from_definition(labware_file, label)
ModuleCall(definition, label) ==
    [called |-> TRUE, definition |-> definition, slot |-> NoPosition,
     label |-> label]

\* the labware object load_labware_from_definition creates from its arguments
NewLabware(call, slot, module) ==
    [type |-> call.definition, label |-> call.label, slot |-> slot,
     module |-> module]

\* What one call load_custom_labware(parent, file, deck_position, label)
\* does on deck d and module bays b: the error raised (None when it
\* returns), whether next_empty_slot was called and the slot it returned, the
\* arguments handed to load_labware_from_definition, the deck and bays after
\* the call and the labware returned.
load_custom_labware(d, b, parent, file, deck_position, label) ==
    LET labware_file == LoadDefinition(file)
        auto == NotSupplied(deck_position)
        position == ResolvePosition(d, deck_position)
        unchanged == [error |-> None, finder |-> FALSE, found |-> NoSlot,
                      placement |-> NoPlacement, deck |-> d, bay |-> b,
                      labware |-> NoLabware]
    IN  IF ~labware_file.ok
        THEN [unchanged EXCEPT !.error = labware_file.error]
        ELSE IF IsDeck(parent)
        THEN IF auto /\ position = NoSlot
             THEN [unchanged EXCEPT !.error = "IndexError", !.finder = TRUE]
             ELSE LET call == DeckCall(labware_file.value, position, label)
                  IN  IF CanPlace(d, position)
                      THEN [error |-> None, finder |-> auto,
                            found |-> IF auto THEN position ELSE NoSlot,
                            placement |-> call,
                            deck |-> Place(d, position, LabwareItem),
                            bay |-> b,
                            labware |-> NewLabware(call, position, 0)]
                      ELSE [unchanged EXCEPT
                               !.error = "ValueError",
                               !.finder = auto,
                               !.found = IF auto THEN position ELSE NoSlot,
                               !.placement = call]
        ELSE LET call == ModuleCall(labware_file.value, label)
             IN  IF b[parent.slot] = None
                 THEN [error |-> None, finder |-> FALSE, found |-> NoSlot,
                       placement |-> call, deck |-> d,
                       bay |-> [b EXCEPT ![parent.slot] = LabwareItem],
                       labware |-> NewLabware(call, 0, parent.slot)]
                 ELSE [unchanged EXCEPT !.error = "AssertionError",
                                        !.placement = call]

\* the containers a protocol script can hand to load_custom_labware
Parents ==
    {ProtocolContext} \cup
    {ModuleContext(s) : s \in {t \in ModuleSlots : deck[t] = ModuleName(t)}}

Operation(op) == [Idle EXCEPT !.op = op]

Init ==
    /\ deck = [s \in Slots |-> IF s = 12 THEN FixedTrash ELSE None]
    /\ bay = [s \in ModuleSlots |-> None]
    /\ phase = "setup"
    /\ error = None
    /\ last = Idle
    /\ lastAuto = 0
    /\ commands = 0

\* an uncaught exception ends run()
Abort(op, exception) ==
    /\ phase' = "aborted"
    /\ error' = exception
    /\ last' = Operation(op)
    /\ UNCHANGED <<deck, bay, lastAuto, commands>>

\* Temp_Module = protocol.load_module("temperature module gen2", slot)
LoadTemperatureModule(slot) ==
    /\ phase = "setup"
    /\ IF CanPlace(deck, slot)
       THEN /\ deck' = Place(deck, slot, TemperatureModuleName)
            /\ last' = Operation("load_module")
            /\ UNCHANGED <<bay, phase, error, lastAuto, commands>>
       ELSE Abort("load_module", "ValueError")

\* Thermocycler = protocol.load_module("Thermocycler Module"); the slots it
\* covers besides 7 report either None or the module
LoadThermocycler(covered) ==
    /\ phase = "setup"
    /\ IF \A s \in ThermocyclerFootprint : deck[s] = None
       THEN /\ deck' = [s \in Slots |->
                          IF s = 7 THEN ThermocyclerName
                          ELSE IF s \in ThermocyclerFootprint THEN covered
                          ELSE deck[s]]
            /\ last' = Operation("load_module")
            /\ UNCHANGED <<bay, phase, error, lastAuto, commands>>
       ELSE Abort("load_module", "ValueError")

\* Tip_Rack_20 = protocol.load_labware("opentrons_96_tiprack_20ul", slot)
LoadLabware(slot) ==
    /\ phase = "setup"
    /\ IF CanPlace(deck, slot)
       THEN /\ deck' = Place(deck, slot, LabwareItem)
            /\ last' = Operation("load_labware")
            /\ UNCHANGED <<bay, phase, error, lastAuto, commands>>
       ELSE Abort("load_labware", "ValueError")

\* Reagent_and_Mastermix_Labware = Temp_Module.load_labware(...)
ModuleLoadLabware(parent) ==
    /\ phase = "setup"
    /\ ~IsDeck(parent)
    /\ IF bay[parent.slot] = None
       THEN /\ bay' = [bay EXCEPT ![parent.slot] = LabwareItem]
            /\ last' = Operation("module.load_labware")
            /\ UNCHANGED <<deck, phase, error, lastAuto, commands>>
       ELSE Abort("module.load_labware", "AssertionError")

\* DNA_and_Primer_Labware = load_custom_labware(parent, file, deck_position, label)
LoadCustomLabware(parent, file, deck_position, label) ==
    /\ phase = "setup"
    /\ LET r == load_custom_labware(deck, bay, parent, file, deck_position, label)
       IN  /\ deck' = r.deck
           /\ bay' = r.bay
           /\ error' = r.error
           /\ phase' = IF r.error = None THEN phase ELSE "aborted"
           /\ lastAuto' = IF r.finder /\ r.error = None THEN r.found
                          ELSE lastAuto
           /\ last' = [op |-> "load_custom_labware", parent |-> parent,
                       file |-> file, deck_position |-> deck_position,
                       label |-> label, finder |-> r.finder,
                       found |-> r.found, repeated |-> FALSE,
                       placement |-> r.placement, labware |-> r.labware]
    /\ UNCHANGED commands

\* a finder that marks the slot it returns as taken
DeckAfterFinder_reserving(d, slot) ==
    IF slot = NoSlot THEN d ELSE Place(d, slot, LabwareItem)

\* the deck after next_empty_slot ran on deck d and returned slot: the
\* function only reads protocol.deck
DeckAfterFinder(d, slot) == d

\* a call next_empty_slot(protocol)
NextEmptySlot ==
    /\ phase = "setup"
    /\ LET slot == next_empty_slot(deck)
       IN  /\ last' = [Operation("next_empty_slot") EXCEPT
                          !.finder = TRUE,
                          !.found = slot,
                          !.repeated = (last.op = "next_empty_slot")]
           /\ deck' = DeckAfterFinder(deck, slot)
           /\ error' = IF slot = NoSlot THEN "IndexError" ELSE None
           /\ phase' = IF slot = NoSlot THEN "aborted" ELSE phase
    /\ UNCHANGED <<bay, lastAuto, commands>>

\* protocol.pause("Ensure all labware and reagents are loaded"): setup is over
Pause ==
    /\ phase = "setup"
    /\ phase' = "commands"
    /\ last' = Operation("pause")
    /\ UNCHANGED <<deck, bay, error, lastAuto, commands>>

\* p20.transfer(...), p300.transfer(...): a liquid-handling command
Transfer ==
    /\ phase = "commands"
    /\ commands < MaxCommands
    /\ commands' = commands + 1
    /\ last' = Operation("transfer")
    /\ UNCHANGED <<deck, bay, phase, error, lastAuto>>

Next ==
    \/ \E slot \in TemperatureSlots : LoadTemperatureModule(slot)
    \/ \E covered \in {None, ThermocyclerName} : LoadThermocycler(covered)
    \/ \E slot \in TipRackSlots : LoadLabware(slot)
    \/ \E parent \in Parents : ModuleLoadLabware(parent)
    \/ \E parent \in Parents, file \in Files, deck_position \in DeckPositions,
          label \in Labels :
          LoadCustomLabware(parent, file, deck_position, label)
    \/ NextEmptySlot
    \/ Pause
    \/ Transfer

Spec == Init /\ [][Next]_vars

----------------------------------------------------------------------------
(* Properties *)

\* the slots of deck d that hold nothing
EmptySlots(d) == {s \in Slots : d[s] = None}

\* the non-reserved slots when the thermal-cycling module is at slot 7
AllowedWithThermocycler == {1, 2, 3, 4, 5, 6, 9}

\* the step called next_empty_slot (directly or from load_custom_labware)
FinderStep == last'.finder

\* C1: on a deck whose slot 7 does not hold the thermocycler and that has an
\* empty slot, next_empty_slot returns the smallest-numbered empty slot: the
\* returned slot is empty and every lower-numbered slot is occupied.
C1_SmallestEmptySlot ==
    [][(FinderStep /\ deck[7] # ThermocyclerName /\ EmptySlots(deck) # {})
         => /\ last'.found \in EmptySlots(deck)
            /\ \A s \in Slots : s < last'.found => deck[s] # None]_vars

\* C1 witness: without a thermocycler, slots 1..7 occupied, the finder
\* returned slot 8
C1_Witness ==
    /\ last.op = "next_empty_slot"
    /\ last.found = 8
    /\ deck[7] = LabwareItem
    /\ \A s \in 1..7 : deck[s] # None

\* C2: on a deck whose slot 7 holds the thermocycler, next_empty_slot returns
\* the smallest-numbered empty slot among {1,2,3,4,5,6,9} and never a slot
\* outside that set, even if slots 8, 10, 11 report empty.
C2_ThermocyclerCandidatesOnly ==
    [][(FinderStep /\ deck[7] = ThermocyclerName)
         => /\ last'.found \in AllowedWithThermocycler \cup {NoSlot}
            /\ (AllowedWithThermocycler \cap EmptySlots(deck) # {})
                 => /\ last'.found \in AllowedWithThermocycler \cap EmptySlots(deck)
                    /\ \A s \in AllowedWithThermocycler :
                          s < last'.found => deck[s] # None]_vars

\* C2 witness: thermocycler at 7, slots 1 and 2 occupied, 3 and 9 empty,
\* slots 8, 10, 11 reporting empty: the finder returned 3
C2_Witness ==
    /\ last.op = "next_empty_slot"
    /\ deck[7] = ThermocyclerName
    /\ deck[1] # None /\ deck[2] # None
    /\ deck[3] = None /\ deck[9] = None
    /\ deck[8] = None /\ deck[10] = None /\ deck[11] = None
    /\ last.found = 3

\* every candidate slot of deck d is occupied
CandidatesExhausted(d) ==
    IF d[7] = ThermocyclerName
    THEN \A s \in AllowedWithThermocycler : d[s] # None
    ELSE \A s \in Slots : d[s] # None

\* C3: when every candidate slot is occupied, next_empty_slot returns no slot
\* and raises IndexError, the deck is unchanged, and through
\* load_custom_labware the error ends the run with no labware placed.
C3_CapacityExhausted ==
    [][(FinderStep /\ CandidatesExhausted(deck))
         => /\ last'.found = NoSlot
            /\ error' = "IndexError"
            /\ phase' = "aborted"
            /\ deck' = deck /\ bay' = bay
            /\ ~last'.placement.called
            /\ last'.labware = NoLabware]_vars

\* C3 witness: load_custom_labware without a slot on a deck with the
\* thermocycler and slots 1..6 and 9 occupied raised IndexError
C3_Witness ==
    /\ last.op = "load_custom_labware"
    /\ last.finder
    /\ error = "IndexError"
    /\ deck[7] = ThermocyclerName
    /\ deck[8] = None
    /\ CandidatesExhausted(deck)

\* the slots of the module footprint reserved on deck d
Reserved(d) == IF d[7] = ThermocyclerName THEN {7, 8, 10, 11} ELSE {}

\* the slots that hold nothing and are not reserved
Allocatable(d) == EmptySlots(d) \ Reserved(d)

\* C4: the finder returns the first slot that is empty and not part of the
\* reserved module footprint, and fails exactly when the deck has no such
\* slot.
C4_AllocatableIffEmptyAndNotReserved ==
    [][FinderStep
         => /\ (last'.found = NoSlot) <=> (Allocatable(deck) = {})
            /\ (last'.found # NoSlot)
                 => /\ last'.found \in Allocatable(deck)
                    /\ \A s \in Allocatable(deck) : last'.found <= s]_vars

\* C4 witness: with the thermocycler loaded and slots 1..6 occupied the
\* finder returned 9, skipping the empty-reporting slot 8
C4_Witness ==
    /\ last.finder
    /\ last.found = 9
    /\ deck[7] = ThermocyclerName
    /\ deck[8] = None
    /\ \A s \in 1..6 : deck[s] # None

\* the step is a call of load_custom_labware
LoaderStep == last'.op = "load_custom_labware"

\* C5: over any sequence of loads, each slot auto-selected by
\* load_custom_labware is the finder's result for the deck at call time, is
\* not a reserved slot, and is strictly greater than the slot auto-selected
\* before it, so no slot is auto-selected twice.
C5_AutoSelectionStrictlyIncreasing ==
    [][(LoaderStep /\ last'.finder /\ last'.found # NoSlot)
         => /\ last'.found = next_empty_slot(deck)
            /\ last'.found \notin Reserved(deck)
            /\ last'.found > lastAuto
            /\ lastAuto' = last'.found]_vars

\* C5 witness: with the thermocycler loaded, slot 9 was auto-selected after
\* slots 5 and 6, which only auto-selection fills
C5_Witness ==
    /\ last.op = "load_custom_labware"
    /\ last.finder
    /\ last.labware.slot = 9
    /\ lastAuto = 9
    /\ deck[7] = ThermocyclerName
    /\ deck[8] = None
    /\ deck[5] = LabwareItem /\ deck[6] = LabwareItem

\* C6: load_custom_labware on the deck with no slot supplied places the new
\* labware at the slot next_empty_slot returns for the deck at call time;
\* afterwards that slot holds the labware and every other slot is unchanged.
C6_AutoSelectedPlacement ==
    [][(/\ LoaderStep
        /\ last'.parent = ProtocolContext
        /\ last'.deck_position = NoPosition
        /\ LoadDefinition(last'.file).ok
        /\ next_empty_slot(deck) # NoSlot)
         => /\ error' = None
            /\ last'.placement.called
            /\ last'.placement.slot = next_empty_slot(deck)
            /\ last'.labware.slot = next_empty_slot(deck)
            /\ deck[next_empty_slot(deck)] = None
            /\ deck'[next_empty_slot(deck)] = LabwareItem
            /\ \A s \in Slots \ {next_empty_slot(deck)} : deck'[s] = deck[s]
            /\ bay' = bay]_vars

\* C6 witness: slots 1 and 2 occupied, no module, no slot supplied: the new
\* labware is at slot 3 and slots 4..11 are still empty
C6_Witness ==
    /\ last.op = "load_custom_labware"
    /\ last.parent = ProtocolContext
    /\ last.deck_position = NoPosition
    /\ last.labware.slot = 3
    /\ deck[1] = LabwareItem /\ deck[2] = LabwareItem /\ deck[3] = LabwareItem
    /\ \A s \in 4..11 : deck[s] = None

\* C7: when the caller supplies a slot to load_custom_labware on the deck,
\* next_empty_slot is not called and the supplied slot is handed unchanged to
\* load_labware_from_definition, whether the slot is empty, occupied or
\* reserved.
C7_SuppliedSlotPassedThrough ==
    (/\ last.op = "load_custom_labware"
     /\ last.parent = ProtocolContext
     /\ last.deck_position \in Slots
     /\ LoadDefinition(last.file).ok)
      => /\ ~last.finder
         /\ last.found = NoSlot
         /\ last.placement.called
         /\ last.placement.slot = last.deck_position

\* C7 witness: slot 8 supplied while the thermocycler covers it: the slot
\* went to the placement primitive, which refused it
C7_Witness ==
    /\ last.op = "load_custom_labware"
    /\ last.parent = ProtocolContext
    /\ last.deck_position = 8
    /\ deck[7] = ThermocyclerName
    /\ last.placement.slot = 8
    /\ error = "ValueError"

\* C8: load_custom_labware with a module as container never calls
\* next_empty_slot and hands no slot to load_labware_from_definition, for
\* every deck state and every deck_position value; the labware goes to the
\* module's bay and the deck slots are unchanged.
C8_ModuleContainer ==
    [][(LoaderStep /\ last'.parent # ProtocolContext)
         => /\ ~last'.finder
            /\ last'.placement.slot = NoPosition
            /\ deck' = deck
            /\ LoadDefinition(last'.file).ok => last'.placement.called
            /\ (LoadDefinition(last'.file).ok /\ bay[last'.parent.slot] = None)
                 => /\ error' = None
                    /\ bay' = [bay EXCEPT ![last'.parent.slot] = LabwareItem]
                    /\ last'.labware.module = last'.parent.slot
                    /\ last'.labware.slot = 0]_vars

\* C8 witness: a load into the thermocycler's bay succeeded with a
\* deck_position argument given and no empty candidate slot on the deck
C8_Witness ==
    /\ last.op = "load_custom_labware"
    /\ last.parent = ModuleContext(7)
    /\ last.deck_position = 3
    /\ error = None
    /\ bay[7] = LabwareItem
    /\ next_empty_slot(deck) = NoSlot

\* the errors of a missing or malformed definition file
DefinitionLoadErrors == {"FileNotFoundError", "JSONDecodeError"}

\* C9: if the definition file is missing or malformed, load_custom_labware
\* raises the definition load error before next_empty_slot is called or any
\* labware is placed, and the run ends there with no liquid-handling command
\* executed, then or later.
C9_DefinitionLoadFailure ==
    [][/\ (LoaderStep /\ last'.file \in {"labware/missing.json",
                                         "labware/broken.json"})
            => /\ error' \in DefinitionLoadErrors
               /\ phase' = "aborted"
               /\ ~last'.finder
               /\ ~last'.placement.called
               /\ last'.labware = NoLabware
               /\ deck' = deck /\ bay' = bay
               /\ commands' = 0
       /\ error \in DefinitionLoadErrors => commands' = 0]_vars

\* C9 witness: a malformed file ended the run on a deck that had an empty
\* slot, before any command
C9_Witness ==
    /\ last.op = "load_custom_labware"
    /\ last.file = "labware/broken.json"
    /\ error = "JSONDecodeError"
    /\ phase = "aborted"
    /\ deck[1] = LabwareItem
    /\ next_empty_slot(deck) # NoSlot

\* the load name written in an existing, well-formed definition file
WrittenLoadName(file) ==
    IF file = "labware/3dprinted_24_tuberack_1500ul.json"
    THEN "3dprinted_24_tuberack_1500ul"
    ELSE "custom_plate"

\* C10: after every successful load_custom_labware, the returned labware's
\* type is the definition read from the file and its label is the label the
\* caller supplied, whether the slot was explicit or auto-selected and
\* whether the container is the deck or a module.
C10_RoundTrip ==
    (last.op = "load_custom_labware" /\ error = None)
      => /\ last.labware.type = [loadName |-> WrittenLoadName(last.file)]
         /\ last.labware.label = last.label

\* C10 witness: an auto-selected load of custom_plate.json with a label
C10_Witness ==
    /\ last.op = "load_custom_labware"
    /\ error = None
    /\ last.finder
    /\ last.file = "labware/custom_plate.json"
    /\ last.label = "DNA and Primers"
    /\ last.labware.label = "DNA and Primers"

\* C11: next_empty_slot is a pure query: a call that returns a slot leaves
\* every slot's occupancy unchanged, the returned slot included, so a call
\* that directly follows another call returns the same slot.
C11_FinderIsPureQuery ==
    [][(last'.op = "next_empty_slot" /\ last'.found # NoSlot)
         => /\ deck' = deck
            /\ bay' = bay
            /\ deck'[last'.found] = None
            /\ last.op = "next_empty_slot" => last'.found = last.found]_vars

\* C11 witness: a second call in a row returned slot 3 again, with slots 1
\* and 2 occupied and slot 3 still empty
C11_Witness ==
    /\ last.op = "next_empty_slot"
    /\ last.repeated
    /\ last.found = 3
    /\ deck[1] # None /\ deck[2] # None
    /\ deck[3] = None

====
